---- MODULE Spec2Model ----
(***************************************************************************)
(* Model of balt_geocoder.Geocoder (src/src/balt_geocoder/geocoder.py):    *)
(* a caching client of the geocod.io API with credential rotation and two  *)
(* nested retry layers.                                                     *)
(*                                                                         *)
(* Conventions                                                             *)
(*  - a Python str that is used as a cache key or inspected character by   *)
(*    character is a sequence of one-character strings;                    *)
(*  - a Python dict is a function whose DOMAIN is its key set;             *)
(*  - a float coordinate is an integer number of 1e-5 degrees, an accuracy *)
(*    an integer number of hundredths;                                     *)
(*  - an API key is identified with its position in geocodio_api_list      *)
(*    (the list is taken to hold pairwise distinct keys).                  *)
(***************************************************************************)
EXTENDS Integers, Sequences, FiniteSets, TLC

(***************************************************************************)
(* Bounds of the model.                                                    *)
(***************************************************************************)
MaxKeys == 2
MaxCalls == 2
MaxScopes == 2

(***************************************************************************)
(* Python values.                                                          *)
(***************************************************************************)
None == [kind |-> "None"]

\* a value round() accepts
IsNumber(x) == x.kind = "float"

Float(v) == [kind |-> "float", val |-> v]

Str(v) == [kind |-> "str", val |-> v]

List(v) == [kind |-> "list", val |-> v]

Tuple(v) == [kind |-> "tuple", val |-> v]

EmptyDict == <<>>

\* bool(d) of a dict, or of None
Truthy(d) == d # None /\ DOMAIN d # {}

\* d.get(k, default)
DictGet(d, k, default) == IF k \in DOMAIN d THEN d[k] ELSE default

\* d[k] = v on a dict
DictSet(d, k, v) == [x \in DOMAIN d \cup {k} |-> IF x = k THEN v ELSE d[x]]

(***************************************************************************)
(* Persisted storage: a file is absent or holds the items of a pickled     *)
(* dict.                                                                   *)
(***************************************************************************)
\* os.path.exists(...) is false
Absent == [kind |-> "absent"]

\* pickle.dump(d, f): the key/value items of the dict
Pickle(d) == [kind |-> "file", items |-> {<<k, d[k]>> : k \in DOMAIN d}]

\* pickle.load(f): the dict of the items
Unpickle(file) ==
    [k \in {item[1] : item \in file.items} |->
        (CHOOSE item \in file.items : item[1] = k)[2]]

\* mutant: the file is not looked at
LoadNothing(file) == <<>>

\* the cache __init__ starts with: {} unless the file exists
Load(file) == IF file = Absent THEN <<>> ELSE Unpickle(file)

(***************************************************************************)
(* Strings.                                                                *)
(***************************************************************************)
LowerChars == <<"a", "b", "c", "d", "e", "f", "g", "h", "i", "j", "k", "l", "m", "n", "o", "p", "q", "r", "s", "t", "u", "v", "w", "x", "y", "z">>

UpperChars == <<"A", "B", "C", "D", "E", "F", "G", "H", "I", "J", "K", "L", "M", "N", "O", "P", "Q", "R", "S", "T", "U", "V", "W", "X", "Y", "Z">>

Digits == {"0", "1", "2", "3", "4", "5", "6", "7", "8", "9"}

UpperChar(c) ==
    IF \E i \in 1..26 : LowerChars[i] = c
    THEN UpperChars[CHOOSE i \in 1..26 : LowerChars[i] = c]
    ELSE c

\* str.upper()
StrUpper(s) == [i \in 1..Len(s) |-> UpperChar(s[i])]

\* str.startswith(p)
StartsWith(s, p) == Len(s) >= Len(p) /\ SubSeq(s, 1, Len(p)) = p

\* str.replace(old, new) for a non-empty old: leftmost, non-overlapping
RECURSIVE StrReplace(_, _, _)
StrReplace(s, old, new) ==
    IF Len(s) < Len(old) THEN s
    ELSE IF SubSeq(s, 1, Len(old)) = old
         THEN new \o StrReplace(SubSeq(s, Len(old) + 1, Len(s)), old, new)
         ELSE <<s[1]>> \o StrReplace(Tail(s), old, new)

\* the length of the longest prefix of digits: what ^(\d*) captures when the
\* next thing to match is a space
LeadingDigits(s) ==
    CHOOSE k \in 0..Len(s) :
        /\ \A i \in 1..k : s[i] \in Digits
        /\ (k = Len(s) \/ s[k + 1] \notin Digits)

\* re.sub(r'^(\d*) <letter>\.? (.*)', r'\1 <word> \2', s), on a one-line s
ReSubDirection(s, letter, word) ==
    LET k == LeadingDigits(s)
        dotted == /\ Len(s) >= k + 4
                  /\ s[k + 1] = " " /\ s[k + 2] = letter
                  /\ s[k + 3] = "." /\ s[k + 4] = " "
        plain  == /\ Len(s) >= k + 3
                  /\ s[k + 1] = " " /\ s[k + 2] = letter /\ s[k + 3] = " "
    IN  IF dotted THEN SubSeq(s, 1, k) \o <<" ">> \o word \o <<" ">> \o SubSeq(s, k + 5, Len(s))
        ELSE IF plain THEN SubSeq(s, 1, k) \o <<" ">> \o word \o <<" ">> \o SubSeq(s, k + 4, Len(s))
        ELSE s

BLK == <<" ", "B", "L", "K", " ">>
BLOCK == <<" ", "B", "L", "O", "C", "K", " ">>
JONES_FALLS == <<"J", "O", "N", "E", "S", " ", "F", "A", "L", "L", "S">>
JONES_FALLS_EXPWY == JONES_FALLS \o <<" ", "E", "X", "P", "W", "Y">>
JONES_FALLS_EXPRESSWAY == JONES_FALLS \o <<" ", "E", "X", "P", "R", "E", "S", "S", "W", "A", "Y">>
I83 == <<"I", "-", "8", "3">>
HW == <<" ", "H", "W">>
HWY == <<" ", "H", "W", "Y">>
NORTH == <<"N", "O", "R", "T", "H">>
SOUTH == <<"S", "O", "U", "T", "H">>
EAST == <<"E", "A", "S", "T">>
WEST == <<"W", "E", "S", "T">>

\* mutant: the directions are expanded before the block qualifier is removed
_standardize_address_DirectionFirst(street_address) ==
    LET s1  == StrUpper(street_address)
        s2  == ReSubDirection(s1, "N", NORTH)
        s3  == ReSubDirection(s2, "S", SOUTH)
        s4  == ReSubDirection(s3, "E", EAST)
        s5  == ReSubDirection(s4, "W", WEST)
        s6  == StrReplace(s5, BLK, <<" ">>)
        s7  == StrReplace(s6, BLOCK, <<" ">>)
        s8  == StrReplace(s7, JONES_FALLS, I83)
        s9  == StrReplace(s8, JONES_FALLS_EXPWY, I83)
        s10 == StrReplace(s9, JONES_FALLS_EXPRESSWAY, I83)
        s11 == StrReplace(s10, HW, HWY)
    IN  s11

\* Geocoder._standardize_address
_standardize_address(street_address) ==
    LET s1  == StrUpper(street_address)
        s2  == StrReplace(s1, BLK, <<" ">>)
        s3  == StrReplace(s2, BLOCK, <<" ">>)
        s4  == StrReplace(s3, JONES_FALLS, I83)
        s5  == StrReplace(s4, JONES_FALLS_EXPWY, I83)
        s6  == StrReplace(s5, JONES_FALLS_EXPRESSWAY, I83)
        s7  == StrReplace(s6, HW, HWY)
        s8  == ReSubDirection(s7, "N", NORTH)
        s9  == ReSubDirection(s8, "S", SOUTH)
        s10 == ReSubDirection(s9, "E", EAST)
        s11 == ReSubDirection(s10, "W", WEST)
    IN  s11

(***************************************************************************)
(* Coordinates.                                                            *)
(***************************************************************************)
\* mutant: the coordinate is not rounded
Round4Raw(v) == v

\* round(x, 4) of a coordinate held in units of 1e-5: the nearest multiple of
\* 1e-4 (a decimal tie, which the binary value of a float decides in Python,
\* goes to the even neighbour)
Round4(v) ==
    LET a  == IF v < 0 THEN 0 - v ELSE v
        q  == a \div 10
        r  == a % 10
        up == r > 5 \/ (r = 5 /\ q % 2 = 1)
        m  == (IF up THEN q + 1 ELSE q) * 10
    IN  IF v < 0 THEN 0 - m ELSE m

(***************************************************************************)
(* Geocoder.get_geocode_result: provider location record -> GeocodeResult.  *)
(* A location record is a dict; 'census' is an ordered dict, held as a      *)
(* sequence of <<year, year record>> pairs in iteration order.  The value   *)
(* is [exc, ret]: exc is "none" or the exception the subscript of a         *)
(* missing key raises.                                                      *)
(***************************************************************************)
RequiredComponents == {"city", "county", "state", "zip", "country"}

\* mutant: the entry of the last year of the mapping is taken
CensusYearLast(census_dict) == census_dict[Len(census_dict)]

\* next(iter(census_dict.keys())): the first entry in iteration order
CensusYear(census_dict) == census_dict[1]

get_geocode_result(geocodio_loc) ==
    LET ret0 == [latitude |-> 0,
                 longitude |-> 0,
                 formatted_address |-> DictGet(geocodio_loc, "formatted_address", <<>>),
                 accuracy |-> DictGet(geocodio_loc, "accuracy", 0),
                 accuracy_type |-> DictGet(geocodio_loc, "accuracy_type", ""),
                 source |-> DictGet(geocodio_loc, "source", ""),
                 number |-> "",
                 predirectional |-> "",
                 street |-> "",
                 suffix |-> "",
                 formatted_street |-> "",
                 city |-> "",
                 county |-> "",
                 state |-> "",
                 zip |-> "",
                 country |-> "",
                 census_tract |-> ""]
        addr_dict == DictGet(geocodio_loc, "address_components", None)
        has_addr  == Truthy(addr_dict)
        addr_ok   == RequiredComponents \subseteq DOMAIN addr_dict
        ret1 == IF has_addr /\ addr_ok
                THEN [ret0 EXCEPT !.number = DictGet(addr_dict, "number", ""),
                                  !.predirectional = DictGet(addr_dict, "predirectional", ""),
                                  !.street = DictGet(addr_dict, "street", ""),
                                  !.suffix = DictGet(addr_dict, "suffix", ""),
                                  !.formatted_street = DictGet(addr_dict, "formatted_street", ""),
                                  !.city = addr_dict["city"],
                                  !.county = addr_dict["county"],
                                  !.state = addr_dict["state"],
                                  !.zip = addr_dict["zip"],
                                  !.country = addr_dict["country"]]
                ELSE ret0
        loc_dict == DictGet(geocodio_loc, "location", None)
        has_loc  == Truthy(loc_dict)
        loc_ok   == {"lat", "lng"} \subseteq DOMAIN loc_dict
        ret2 == IF has_loc /\ loc_ok
                THEN [ret1 EXCEPT !.latitude = loc_dict["lat"], !.longitude = loc_dict["lng"]]
                ELSE ret1
        fields_dict == DictGet(geocodio_loc, "fields", None)
        census_dict == IF Truthy(fields_dict) THEN DictGet(fields_dict, "census", <<>>) ELSE <<>>
        has_census  == Len(census_dict) > 0
        \* next(iter(census_dict.keys())), then census_dict.get(census_year)
        census_year_dict == CensusYear(census_dict)[2]
        has_year  == has_census /\ Truthy(census_year_dict)
        year_ok   == "tract_code" \in DOMAIN census_year_dict
        ret3 == IF has_year /\ year_ok
                THEN [ret2 EXCEPT !.census_tract = census_year_dict["tract_code"]]
                ELSE ret2
    IN  IF has_addr /\ ~addr_ok THEN [exc |-> "KeyError", ret |-> None]
        ELSE IF has_loc /\ ~loc_ok THEN [exc |-> "KeyError", ret |-> None]
        ELSE IF has_year /\ ~year_ok THEN [exc |-> "KeyError", ret |-> None]
        ELSE [exc |-> "none", ret |-> ret3]

(***************************************************************************)
(* Geocoder.update_cached_geo: the merge rule.  The operators work on a     *)
(* pair of caches [geo, rev] and give [geo, rev, exc].                      *)
(***************************************************************************)
\* mutant: the entry under the key is always overwritten
ShouldWriteAlways(cache, key, result_accuracy) == TRUE

\* mutant: an entry of equal accuracy is replaced too
ShouldWriteOrEqual(cache, key, result_accuracy) ==
    \/ ~Truthy(DictGet(cache, key, None))
    \/ DictGet(cache[key], "accuracy", 0) <= result_accuracy

\* `not cache.get(key) or cache[key].get('accuracy', 0.0) < result_accuracy`
ShouldWrite(cache, key, result_accuracy) ==
    \/ ~Truthy(DictGet(cache, key, None))
    \/ DictGet(cache[key], "accuracy", 0) < result_accuracy

MergeInto(cache, key, geocode_result) ==
    IF ShouldWrite(cache, key, geocode_result["accuracy"])
    THEN DictSet(cache, key, geocode_result)
    ELSE cache

\* mutant: the coordinates of the result itself are never filed
HasOwnCoordsNever(geocode_result) == FALSE

\* coords of the result itself, when both are truthy (non-zero)
HasOwnCoords(geocode_result) ==
    /\ DictGet(geocode_result, "latitude", 0) # 0
    /\ DictGet(geocode_result, "longitude", 0) # 0

OwnCoords(geocode_result) ==
    <<Round4(geocode_result["latitude"]), Round4(geocode_result["longitude"])>>

\* mutant: the pair passed as rev_lookup is used as it is
RoundPairRaw(p) == p

\* (round(rev_lookup[0], 4), round(rev_lookup[1], 4))
RoundPair(p) == <<Round4(p[1]), Round4(p[2])>>

\* forward_lookup is None or a str; rev_lookup is None or <<lat, long>>
update_cached_geo(geo, rev, geocode_result, forward_lookup, rev_lookup) ==
    IF DictGet(geocode_result, "accuracy", 0) = 0
    THEN [geo |-> geo, rev |-> rev, exc |-> "AssertionError"]
    ELSE
    LET addr == DictGet(geocode_result, "formatted_address", <<>>)
        geo1 == MergeInto(geo, addr, geocode_result)
        geo2 == IF forward_lookup # None /\ forward_lookup.val # <<>>
                THEN MergeInto(geo1, forward_lookup.val, geocode_result)
                ELSE geo1
        rev1 == IF HasOwnCoords(geocode_result)
                THEN MergeInto(rev, OwnCoords(geocode_result), geocode_result)
                ELSE rev
        rev2 == IF rev_lookup # None
                THEN MergeInto(rev1, RoundPair(rev_lookup.val), geocode_result)
                ELSE rev1
    IN  [geo |-> geo2, rev |-> rev2, exc |-> "none"]

(***************************************************************************)
(* error_check: classification of a decoded response body.                  *)
(***************************************************************************)
PaymentPrefix == <<"P", "l", "e", "a", "s", "e", " ", "a", "d", "d", " ", "a", " ", "p", "a", "y", "m", "e", "n", "t", " ", "m", "e", "t", "h", "o", "d", ".">>
InvalidKeyPrefix == <<"I", "n", "v", "a", "l", "i", "d", " ", "A", "P", "I", " ", "k", "e", "y">>
DemoPrefix == <<"T", "h", "i", "s", " ", "i", "s", " ", "j", "u", "s", "t", " ", "a", " ", "d", "e", "m", "o", " ", "a", "c", "c", "o", "u", "n", "t">>

\* mutant: a body that carries an error is never a valid response
IsValidResponseUnlessError(resp) ==
    /\ DictGet(resp, "results", None) # None \/ DictGet(resp, "result", None) # None
    /\ DictGet(resp, "error", None) = None

\* resp.get('results') is not None or resp.get('result') is not None
IsValidResponse(resp) ==
    DictGet(resp, "results", None) # None \/ DictGet(resp, "result", None) # None

\* bool(resp.get('error')): a non-empty message
HasError(resp) ==
    DictGet(resp, "error", None) # None /\ resp["error"].val # <<>>

IsCredentialError(error) ==
    \/ StartsWith(error, PaymentPrefix)
    \/ StartsWith(error, InvalidKeyPrefix)
    \/ StartsWith(error, DemoPrefix)

\* what the wrapper does with a decoded body: "return", "APIRetryError" (after
\* advancing the index) or "RuntimeError"
Classify(resp) ==
    IF IsValidResponse(resp) THEN "return"
    ELSE IF HasError(resp) /\ IsCredentialError(resp["error"].val) THEN "APIRetryError"
    ELSE "RuntimeError"

\* mutant: the index skips a key
AdvanceIndexSkip(i) == i + 2

\* self.geocodio_api_index += 1
AdvanceIndex(i) == i + 1

\* the guard at the top of the wrapper
NoMoreKeys(index, api_list) == index >= Len(api_list)

(***************************************************************************)
(* The tenacity decorators of _geocode and _reverse_geocode.                *)
(***************************************************************************)
\* mutant: the outer layer allows 7 attempts
StopAfterSeven == 5 + 2

\* mutant: a lower attempt cap
StopAfterThree == 5 - 2

\* stop_after_attempt(5)
StopAfterAttempt == 5

\* mutant: the inner layer retries nothing
InnerRetriesNothing(exc) == FALSE

\* inner layer: retry_if_exception_type(APIRetryError), no stop, no wait
InnerRetries(exc) == exc = "APIRetryError"

\* mutant: the outer layer retries every exception
OuterRetriesAny(exc) == TRUE

\* mutant: the outer layer retries decode errors only
OuterRetriesDecodeOnly(exc) == exc = "JSONDecodeError"

\* outer layer: retry_if_exception_type(RuntimeError) | retry_if_exception_type(json.JSONDecodeError)
OuterRetries(exc) == exc \in {"RuntimeError", "JSONDecodeError"}

(***************************************************************************)
(* The inputs the model draws from.                                         *)
(***************************************************************************)
\* '1 n a', '1 blk N. a' (same normal form '1 NORTH A') and '2 b'
Addr1 == <<"1", " ", "n", " ", "a">>
Addr2 == <<"1", " ", "b", "l", "k", " ", "N", ".", " ", "a">>
Addr3 == <<"2", " ", "b">>

AddressInputs == {Addr1, Addr2, Addr3}

\* formatted addresses the provider answers with: '1 N a' and '2 B'
FmtA == <<"1", " ", "N", " ", "a">>
FmtB == <<"2", " ", "B">>

BaltimoreComponents ==
    [number |-> "1", predirectional |-> "N", street |-> "A", suffix |-> "St",
     formatted_street |-> "N A St", city |-> "Baltimore", county |-> "Baltimore city",
     state |-> "MD", zip |-> "21201", country |-> "US"]

\* a rooftop match in the city, with census data
LocA ==
    [formatted_address |-> FmtA, accuracy |-> 100, accuracy_type |-> "rooftop",
     source |-> "City of Baltimore",
     address_components |-> BaltimoreComponents,
     location |-> [lat |-> 3930512, lng |-> -7661581],
     fields |-> [census |-> << <<"2019", [tract_code |-> "110200"]>> >>]]

\* a fuzzier match outside the city
LocB ==
    [formatted_address |-> FmtB, accuracy |-> 50, accuracy_type |-> "range_interpolation",
     source |-> "TIGER",
     address_components |-> [BaltimoreComponents EXCEPT !.county = "Baltimore County", !.number = "2"],
     location |-> [lat |-> 3930560, lng |-> -7661520]]

\* as accurate as LocB, in the rounding bucket of LocA
LocC ==
    [formatted_address |-> FmtA, accuracy |-> 50, accuracy_type |-> "street_center",
     source |-> "TIGER",
     address_components |-> BaltimoreComponents,
     location |-> [lat |-> 3930514, lng |-> -7661583]]

\* a candidate with no accuracy
LocBare == [formatted_address |-> FmtB, accuracy_type |-> "state", source |-> "TIGER"]

\* a candidate the provider scores 0
LocZero == [LocB EXCEPT !.accuracy = 0]

Locations == {LocA, LocB, LocC, LocBare, LocZero}

\* the candidate lists of a success response, in response order
CandidateLists ==
    {<<>>, <<LocA>>, <<LocB>>, <<LocC>>,
     <<LocA, LocC>>, <<LocC, LocA>>, <<LocB, LocC>>, <<LocC, LocB>>, <<LocA, LocB>>}

MsgPayment == PaymentPrefix \o <<" ", "L", "i", "m", "i", "t">>
MsgInvalidKey == InvalidKeyPrefix
MsgDemo == DemoPrefix \o <<",", " ", "s", "i", "g", "n", " ", "u", "p">>
MsgOther == <<"C", "o", "u", "l", "d", " ", "n", "o", "t", " ", "g", "e", "o", "c", "o", "d", "e">>

\* decoded JSON bodies the provider can answer with
SuccessBodies == {[results |-> List(c)] : c \in CandidateLists}

ErrorBodies ==
    {[error |-> Str(MsgPayment)], [error |-> Str(MsgInvalidKey)], [error |-> Str(MsgDemo)],
     [error |-> Str(MsgOther)], [error |-> Str(<<>>)], <<>>}

Bodies == SuccessBodies \cup ErrorBodies

\* a latitude or longitude read from a file as text
NotANumber == <<"n", "/", "a">>

\* raw coordinates: the first two round to the same 4-decimal pair
Coord1 == <<3930510, -7661580>>
Coord2 == <<3930512, -7661581>>
Coord3 == <<5555000, 6666000>>

CoordInputs ==
    {<<Float(c[1]), Float(c[2])>> : c \in {Coord1, Coord2}} \cup {<<None, Float(Coord1[2])>>}

\* what a pickle file written by an earlier run can hold
ResultOf(loc) == get_geocode_result(loc).ret

PickledCaches ==
    {[geo |-> <<>>, rev |-> <<>>],
     [geo |-> DictSet(<<>>, _standardize_address(Addr3), ResultOf(LocB)),
      rev |-> DictSet(<<>>, RoundPair(Coord3), ResultOf(LocB))],
     [geo |-> DictSet(<<>>, _standardize_address(Addr1), EmptyDict),
      rev |-> DictSet(<<>>, RoundPair(Coord1), ResultOf(LocC))]}

\* arguments of direct update_cached_geo calls
LocB51 == [LocB EXCEPT !.accuracy = 51, !.source = "Statewide"]

UpdateResults == {ResultOf(LocB51), ResultOf(LocC), ResultOf(LocBare)}
UpdateForward == {None, Str(_standardize_address(Addr3))}
UpdateReverse == {None, Tuple(Coord3)}

ApiKeys == <<"KEY1", "KEY2", "KEY3", "KEY4">>

(***************************************************************************)
(* State.                                                                   *)
(***************************************************************************)
VARIABLES
    geocodio_api_list,   \* the credentials, in order
    geocodio_api_index,  \* 0-based index of the credential in use
    cached_geo,          \* forward cache: address -> GeocodeResult
    cached_geo_rev,      \* reverse cache: <<lat, long>> -> GeocodeResult
    pc,                  \* "idle", or "calling" inside _geocode / _reverse_geocode
    call,                \* the public call in progress, or the last one made
    attempt,             \* attempt number of the outer retry layer
    http_count,          \* HTTP requests issued by this call so far
    answers,             \* what the provider answered to this call so far: "none", the
                         \* one kind of answer it gave every time, or "mixed"
    request,             \* the last HTTP request this call sent
    rejected,            \* keys the provider rejected with a credential-level error
    outcome,             \* how the last public call ended: "pending", "returned" or
                         \* the exception raised to the caller
    result,              \* the value returned to the caller
    pre,                 \* index and caches when this call started
    calls,               \* public calls made so far
    files,               \* the two pickle files: Absent or pickled items
    scope,               \* "constructed", "entered" (inside `with`) or "exited"
    storage_ops          \* pickle.load and pickle.dump calls made so far

vars == <<geocodio_api_list, geocodio_api_index, cached_geo, cached_geo_rev, pc, call,
          attempt, http_count, answers, request, rejected, outcome, result, pre, calls,
          files, scope, storage_ops>>

\* files as an earlier run left them: no file where it had nothing to keep
StoredFiles ==
    {[geo |-> IF pickled.geo = <<>> THEN Absent ELSE Pickle(pickled.geo),
      rev |-> IF pickled.rev = <<>> THEN Absent ELSE Pickle(pickled.rev)] :
        pickled \in PickledCaches}

\* pickle.load calls of one __init__
LoadsOf(stored) ==
    (IF stored.geo = Absent THEN 0 ELSE 1) + (IF stored.rev = Absent THEN 0 ELSE 1)

\* Geocoder.__init__: index 0, caches as unpickled (empty when no file exists)
Init ==
    /\ geocodio_api_list \in {SubSeq(ApiKeys, 1, n) : n \in 0..MaxKeys}
    /\ geocodio_api_index = 0
    /\ files \in StoredFiles
    /\ cached_geo = Load(files.geo)
    /\ cached_geo_rev = Load(files.rev)
    /\ scope = "constructed"
    /\ storage_ops = [loads |-> LoadsOf(files), dumps_geo |-> 0, dumps_rev |-> 0]
    /\ pc = "idle"
    /\ call = [op |-> "none"]
    /\ attempt = 0
    /\ http_count = 0
    /\ answers = "none"
    /\ request = None
    /\ rejected = {}
    /\ outcome = "returned"
    /\ result = None
    /\ pre = [index |-> 0, geo |-> cached_geo, rev |-> cached_geo_rev]
    /\ calls = 0

Snapshot == [index |-> geocodio_api_index, geo |-> cached_geo, rev |-> cached_geo_rev]

\* a public call begins
Begin(c) ==
    /\ pc = "idle"
    /\ scope # "exited"
    /\ UNCHANGED <<files, scope, storage_ops>>
    /\ calls < MaxCalls
    /\ calls' = calls + 1
    /\ call' = c
    /\ pre' = Snapshot
    /\ request' = None
    /\ http_count' = 0
    /\ answers' = "none"

\* the call ends without having entered the provider call
Finish(how, value) ==
    /\ pc' = "idle"
    /\ attempt' = 0
    /\ outcome' = how
    /\ result' = value

\* the call enters _geocode / _reverse_geocode
Enter ==
    /\ pc' = "calling"
    /\ attempt' = 1
    /\ outcome' = "pending"
    /\ result' = None

\* mutant: a cached entry is used only while a credential is left
IsCachedWithKey(cache, key) ==
    /\ Truthy(DictGet(cache, key, None))
    /\ geocodio_api_index < Len(geocodio_api_list)

\* mutant: the test of the cache is inverted
IsCachedInverted(cache, key) == ~Truthy(DictGet(cache, key, None))

\* `if not self.cached_geo.get(std_address)` / `if not self.cached_geo_rev.get(...)`
IsCached(cache, key) == Truthy(DictGet(cache, key, None))

(***************************************************************************)
(* Geocoder.geocode, up to the provider call.                               *)
(***************************************************************************)
geocode(street_address) ==
    LET std_address == _standardize_address(street_address)
    IN  /\ Begin([op |-> "geocode", street_address |-> street_address,
                  std_address |-> std_address])
        /\ IF IsCached(cached_geo, std_address)
           THEN Finish("returned", DictGet(cached_geo, std_address, None))
           ELSE Enter
        /\ UNCHANGED <<geocodio_api_list, geocodio_api_index, cached_geo, cached_geo_rev, rejected>>

(***************************************************************************)
(* Geocoder.reverse_geocode, up to the provider call.                       *)
(***************************************************************************)
reverse_geocode(lat, long) ==
    /\ IF lat = None \/ long = None
       THEN /\ Begin([op |-> "reverse_geocode", lat |-> lat, long |-> long])
            /\ Finish("returned", None)
       ELSE IF ~IsNumber(lat) \/ ~IsNumber(long)
       THEN /\ Begin([op |-> "reverse_geocode", lat |-> lat, long |-> long])
            /\ Finish("TypeError", None)
       ELSE LET lat_rnd  == Round4(lat.val)
                long_rnd == Round4(long.val)
            IN  /\ Begin([op |-> "reverse_geocode", lat |-> lat, long |-> long,
                          lat_rnd |-> lat_rnd, long_rnd |-> long_rnd])
                /\ IF IsCached(cached_geo_rev, <<lat_rnd, long_rnd>>)
                   THEN Finish("returned", DictGet(cached_geo_rev, <<lat_rnd, long_rnd>>, None))
                   ELSE Enter
    /\ UNCHANGED <<geocodio_api_list, geocodio_api_index, cached_geo, cached_geo_rev, rejected>>

(***************************************************************************)
(* A direct call of Geocoder.update_cached_geo.                             *)
(***************************************************************************)
UpdateCachedGeo(geocode_result, forward_lookup, rev_lookup) ==
    LET u == update_cached_geo(cached_geo, cached_geo_rev, geocode_result,
                               forward_lookup, rev_lookup)
    IN  /\ Begin([op |-> "update_cached_geo", geocode_result |-> geocode_result,
                  forward_lookup |-> forward_lookup, rev_lookup |-> rev_lookup])
        /\ cached_geo' = u.geo
        /\ cached_geo_rev' = u.rev
        /\ Finish(IF u.exc = "none" THEN "returned" ELSE u.exc, None)
        /\ UNCHANGED <<geocodio_api_list, geocodio_api_index, rejected>>

(***************************************************************************)
(* The provider call: _geocode / _reverse_geocode under error_check and the *)
(* two retry layers.  One step is one run of the error_check wrapper.       *)
(***************************************************************************)
\* mutant: an exception that reaches the caller is turned into an absent result
RaiseSwallowed(exc) ==
    IF InnerRetries(exc)
    THEN UNCHANGED <<pc, attempt, outcome, result>>
    ELSE IF OuterRetries(exc) /\ attempt < StopAfterAttempt
    THEN /\ attempt' = attempt + 1
         /\ UNCHANGED <<pc, outcome, result>>
    ELSE /\ pc' = "idle"
         /\ outcome' = "returned"
         /\ result' = None
         /\ UNCHANGED attempt

\* an exception leaves the wrapper: the inner layer calls the wrapper again on
\* APIRetryError; the outer layer starts a new attempt on its own exceptions
\* until the attempt cap; anything else reaches the caller (reraise=True)
Raise(exc) ==
    IF InnerRetries(exc)
    THEN UNCHANGED <<pc, attempt, outcome, result>>
    ELSE IF OuterRetries(exc) /\ attempt < StopAfterAttempt
    THEN /\ attempt' = attempt + 1
         /\ UNCHANGED <<pc, outcome, result>>
    ELSE /\ pc' = "idle"
         /\ outcome' = exc
         /\ result' = None
         /\ UNCHANGED attempt

\* the guard of the wrapper fails: no request is made
ErrorCheckFatal ==
    /\ pc = "calling"
    /\ NoMoreKeys(geocodio_api_index, geocodio_api_list)
    /\ Raise("APIFatalError")
    /\ UNCHANGED <<geocodio_api_list, geocodio_api_index, cached_geo, cached_geo_rev, call,
                   http_count, answers, request, rejected, pre, calls,
                   files, scope, storage_ops>>

\* str({x}): the text of a one-element set
FormatSet(x) == <<Str("{"), Float(x), Str("}")>>

\* mutant: the payload always carries the first key
CurrentKeyFirst(api_list, index) == api_list[1]

\* the key the payload carries
CurrentKey(api_list, index) == api_list[index + 1]

\* mutant: the payload carries the key that was current when the call began
PayloadStaleKey ==
    [url |-> "https://api.geocod.io/v1.6/geocode",
     q |-> Str(<<>>),
     fields |-> "census",
     api_key |-> geocodio_api_list[pre.index + 1]]

\* the payload of the GET
Payload ==
    IF call.op = "geocode"
    THEN [url |-> "https://api.geocod.io/v1.6/geocode",
          q |-> Str(call.std_address),
          fields |-> "census",
          api_key |-> CurrentKey(geocodio_api_list, geocodio_api_index)]
    ELSE [url |-> "https://api.geocod.io/v1.6/reverse",
          q |-> [kind |-> "formatted",
                 val |-> FormatSet(call.lat_rnd) \o <<Str(",")>> \o FormatSet(call.long_rnd)],
          fields |-> "census",
          api_key |-> CurrentKey(geocodio_api_list, geocodio_api_index)]

\* the provider gives one more answer of kind k
Answered(k) == IF answers \in {"none", k} THEN k ELSE "mixed"

\* requests.get(...)
Send ==
    /\ pc = "calling"
    /\ UNCHANGED <<files, scope, storage_ops>>
    /\ ~NoMoreKeys(geocodio_api_index, geocodio_api_list)
    /\ request' = Payload
    /\ http_count' = http_count + 1

\* requests.get raises (a network failure)
TransportFailure ==
    /\ Send
    /\ answers' = Answered("transport")
    /\ Raise("ConnectionError")
    /\ UNCHANGED <<geocodio_api_list, geocodio_api_index, cached_geo, cached_geo_rev, call,
                   rejected, pre, calls>>

\* .json() raises on the body
UndecodableBody ==
    /\ Send
    /\ answers' = Answered("undecodable")
    /\ Raise("JSONDecodeError")
    /\ UNCHANGED <<geocodio_api_list, geocodio_api_index, cached_geo, cached_geo_rev, call,
                   rejected, pre, calls>>

\* a credential-level error: the index advances and APIRetryError is raised
CredentialRejected ==
    /\ Send
    /\ \E resp \in Bodies : Classify(resp) = "APIRetryError"
    /\ geocodio_api_index' = AdvanceIndex(geocodio_api_index)
    /\ rejected' = rejected \cup {CurrentKey(geocodio_api_list, geocodio_api_index)}
    /\ answers' = Answered("credential")
    /\ Raise("APIRetryError")
    /\ UNCHANGED <<geocodio_api_list, cached_geo, cached_geo_rev, call, pre, calls>>

\* any other body without results: RuntimeError
ProviderError ==
    /\ Send
    /\ \E resp \in Bodies : Classify(resp) = "RuntimeError"
    /\ answers' = Answered("error")
    /\ Raise("RuntimeError")
    /\ UNCHANGED <<geocodio_api_list, geocodio_api_index, cached_geo, cached_geo_rev, call,
                   rejected, pre, calls>>

\* get_geocode_result on each location the provider can answer with
Normalized == [loc \in Locations |-> get_geocode_result(loc)]

\* mutant: a response without candidates is remembered under the keys looked up
ProcessCandidatesCachesMiss(geo, rev, locs, forward_lookup, rev_lookup) ==
    IF locs = <<>>
    THEN [geo |-> IF forward_lookup = None THEN geo
                  ELSE DictSet(geo, forward_lookup.val, [accuracy |-> 0]),
          rev |-> IF rev_lookup = None THEN rev
                  ELSE DictSet(rev, RoundPair(rev_lookup.val), [accuracy |-> 0]),
          exc |-> "none"]
    ELSE update_cached_geo(geo, rev, Normalized[Head(locs)].ret, forward_lookup, rev_lookup)

\* mutant: only the first candidate of the response is merged
ProcessCandidatesFirstOnly(geo, rev, locs, forward_lookup, rev_lookup) ==
    IF locs = <<>> THEN [geo |-> geo, rev |-> rev, exc |-> "none"]
    ELSE update_cached_geo(geo, rev, Normalized[Head(locs)].ret, forward_lookup, rev_lookup)

\* mutant: a candidate outside the expected municipality is dropped
RECURSIVE ProcessCandidatesCityOnly(_, _, _, _, _)
ProcessCandidatesCityOnly(geo, rev, locs, forward_lookup, rev_lookup) ==
    IF locs = <<>> THEN [geo |-> geo, rev |-> rev, exc |-> "none"]
    ELSE LET r == Normalized[Head(locs)]
         IN  IF r.exc # "none" THEN [geo |-> geo, rev |-> rev, exc |-> r.exc]
             ELSE IF r.ret.county # "Baltimore city"
             THEN ProcessCandidatesCityOnly(geo, rev, Tail(locs), forward_lookup, rev_lookup)
             ELSE LET u == update_cached_geo(geo, rev, r.ret, forward_lookup, rev_lookup)
                  IN  IF u.exc # "none" THEN u
                      ELSE ProcessCandidatesCityOnly(u.geo, u.rev, Tail(locs),
                                                     forward_lookup, rev_lookup)

\* the loop of geocode / reverse_geocode over response.get('results', [])
RECURSIVE ProcessCandidates(_, _, _, _, _)
ProcessCandidates(geo, rev, locs, forward_lookup, rev_lookup) ==
    IF locs = <<>> THEN [geo |-> geo, rev |-> rev, exc |-> "none"]
    ELSE LET r == Normalized[Head(locs)]
         IN  IF r.exc # "none" THEN [geo |-> geo, rev |-> rev, exc |-> r.exc]
             ELSE LET u == update_cached_geo(geo, rev, r.ret, forward_lookup, rev_lookup)
                  IN  IF u.exc # "none" THEN u
                      ELSE ProcessCandidates(u.geo, u.rev, Tail(locs), forward_lookup, rev_lookup)

\* forward_lookup= and rev_lookup= as the two public operations pass them
ForwardLookupArg == IF call.op = "geocode" THEN Str(call.std_address) ELSE None

RevLookupArg ==
    IF call.op = "reverse_geocode" THEN Tuple(<<call.lat.val, call.long.val>>) ELSE None

\* the final `return self.cached_geo.get(std_address)` / `self.cached_geo_rev.get(...)`
Lookup(geo, rev) ==
    IF call.op = "geocode"
    THEN DictGet(geo, call.std_address, None)
    ELSE DictGet(rev, <<call.lat_rnd, call.long_rnd>>, None)

\* a body with results: the wrapper returns it and the public operation
\* normalizes and merges every candidate, then answers from its cache
ProviderAnswers(resp) ==
    /\ Send
    /\ Classify(resp) = "return"
    /\ LET locs == DictGet(resp, "results", List(<<>>)).val
           p == ProcessCandidates(cached_geo, cached_geo_rev, locs,
                                  ForwardLookupArg, RevLookupArg)
       IN  /\ cached_geo' = p.geo
           /\ cached_geo_rev' = p.rev
           /\ outcome' = IF p.exc = "none" THEN "returned" ELSE p.exc
           /\ result' = IF p.exc = "none" THEN Lookup(p.geo, p.rev) ELSE None
    /\ answers' = Answered("success")
    /\ pc' = "idle"
    /\ UNCHANGED <<geocodio_api_list, geocodio_api_index, call, attempt, rejected, pre, calls>>

ProviderSuccess == \E resp \in Bodies : ProviderAnswers(resp)

Next ==
    \/ \E street_address \in AddressInputs : geocode(street_address)
    \/ \E c \in CoordInputs : reverse_geocode(c[1], c[2])
    \/ \E r \in UpdateResults, f \in UpdateForward, v \in UpdateReverse : UpdateCachedGeo(r, f, v)
    \/ ErrorCheckFatal
    \/ TransportFailure
    \/ UndecodableBody
    \/ CredentialRejected
    \/ ProviderError
    \/ ProviderSuccess

Spec == Init /\ [][Next]_vars

(***************************************************************************)
(* The normalizer on its own: _standardize_address applied to an address,   *)
(* and applied again to what it returned.                                   *)
(***************************************************************************)
\* addresses put together from a house number, an optional block qualifier,
\* an optional direction and the rest
NumberParts == {<<"1", "0", "0", "0">>, <<"7">>}
QualifierParts == {<<>>, <<" ", "b", "l", "o", "c", "k">>, <<" ", "B", "L", "K">>, <<" ", "B", "l", "k">>}
DirectionParts == {<<>>, <<" ", "n">>, <<" ", "S", ".">>, <<" ", "e">>, <<" ", "W", ".">>, <<" ", "N">>}
RestParts == {<<" ", "c", "h", "a", "r", "l", "e", "s", " ", "s", "t">>, <<" ", "P", "u", "l", "a", "s", "k", "i", " ", "H", "w", "y">>, <<" ", "p", "u", "l", "a", "s", "k", "i", " ", "h", "w">>, <<" ", "j", "o", "n", "e", "s", " ", "f", "a", "l", "l", "s", " ", "e", "x", "p", "w", "y">>, <<" ", "a", " ", "b", "l", "k", " ", "b">>, <<" ", "e", " ", "s", "t">>}

Address(number, qualifier, direction, rest) == number \o qualifier \o direction \o rest

NormalizerInputs ==
    {Address(n, q, d, r) :
        n \in NumberParts, q \in QualifierParts, d \in DirectionParts, r \in RestParts}

Standardize(street_address) ==
    /\ pc = "idle"
    /\ call' = [op |-> "_standardize_address", street_address |-> street_address,
                again |-> FALSE]
    /\ result' = Str(_standardize_address(street_address))
    /\ outcome' = "returned"
    /\ UNCHANGED <<geocodio_api_list, geocodio_api_index, cached_geo, cached_geo_rev, pc,
                   attempt, http_count, answers, request, rejected, pre, calls, files,
                   scope, storage_ops>>

\* the normalizer applied to its own result
Restandardize ==
    /\ pc = "idle"
    /\ call.op = "_standardize_address"
    /\ ~call.again
    /\ call' = [op |-> "_standardize_address", street_address |-> result.val, again |-> TRUE]
    /\ result' = Str(_standardize_address(result.val))
    /\ outcome' = "returned"
    /\ UNCHANGED <<geocodio_api_list, geocodio_api_index, cached_geo, cached_geo_rev, pc,
                   attempt, http_count, answers, request, rejected, pre, calls, files,
                   scope, storage_ops>>

NextNormalizer ==
    \/ \E street_address \in NormalizerInputs : Standardize(street_address)
    \/ Restandardize

\* no key and no file: the normalizer is a static method
InitNormalizer ==
    Init /\ geocodio_api_list = <<>> /\ files = [geo |-> Absent, rev |-> Absent]

SpecNormalizer == InitNormalizer /\ [][NextNormalizer]_vars

(***************************************************************************)
(* Calls with arguments of other shapes: a coordinate that is not a number, *)
(* an address that is not in normal form given to update_cached_geo and     *)
(* then looked up, the pair and the formatted address of a filed result.    *)
(***************************************************************************)
ArgAddresses == {Addr3, FmtA}

ArgCoords ==
    {<<Float(Coord3[1]), Float(Coord3[2])>>,
     <<Float(LocC.location.lat), Float(LocC.location.lng)>>,
     <<Float(Coord1[1]), Str(NotANumber)>>,
     <<None, Float(Coord1[2])>>}

ArgUpdates == {ResultOf(LocC), ResultOf(LocB51)}

NextArgs ==
    \/ \E street_address \in ArgAddresses : geocode(street_address)
    \/ \E c \in ArgCoords : reverse_geocode(c[1], c[2])
    \/ \E r \in ArgUpdates : UpdateCachedGeo(r, Str(Addr3), Tuple(Coord3))
    \/ ErrorCheckFatal
    \/ TransportFailure
    \/ UndecodableBody
    \/ CredentialRejected
    \/ ProviderError
    \/ ProviderSuccess

\* one instance with at most one key
InitArgs == Init /\ Len(geocodio_api_list) <= 1

SpecArgs == InitArgs /\ [][NextArgs]_vars

(***************************************************************************)
(* The scoped use: `with Geocoder(keys, file, file_rev) as g: ...`, then a  *)
(* Geocoder constructed again on the same two filenames.                    *)
(***************************************************************************)
\* mutant: entering the scope loads the files again
ScopeEnterReloads ==
    /\ pc = "idle"
    /\ scope = "constructed"
    /\ scope' = "entered"
    /\ cached_geo' = Load(files.geo)
    /\ cached_geo_rev' = Load(files.rev)
    /\ storage_ops' = [storage_ops EXCEPT !.loads = @ + LoadsOf(files)]
    /\ UNCHANGED <<geocodio_api_list, geocodio_api_index, pc, call, attempt, http_count,
                   answers, request, rejected, outcome, result, pre, calls, files>>

\* Geocoder.__enter__
ScopeEnter ==
    /\ pc = "idle"
    /\ scope = "constructed"
    /\ scope' = "entered"
    /\ UNCHANGED <<geocodio_api_list, geocodio_api_index, cached_geo, cached_geo_rev, pc, call,
                   attempt, http_count, answers, request, rejected, outcome, result, pre,
                   calls, files, storage_ops>>

\* Geocoder.__exit__, however the body ended: each cache is dumped to its file
ScopeExit ==
    /\ pc = "idle"
    /\ scope = "entered"
    /\ scope' = "exited"
    /\ files' = [geo |-> Pickle(cached_geo), rev |-> Pickle(cached_geo_rev)]
    /\ storage_ops' = [storage_ops EXCEPT !.dumps_geo = @ + 1, !.dumps_rev = @ + 1]
    /\ UNCHANGED <<geocodio_api_list, geocodio_api_index, cached_geo, cached_geo_rev, pc, call,
                   attempt, http_count, answers, request, rejected, outcome, result, pre,
                   calls>>

\* Geocoder.__init__ of a new instance on the same keys and filenames
Construct ==
    /\ scope = "exited"
    /\ storage_ops.dumps_geo < MaxScopes
    /\ scope' = "constructed"
    /\ geocodio_api_index' = 0
    /\ cached_geo' = Load(files.geo)
    /\ cached_geo_rev' = Load(files.rev)
    /\ storage_ops' = [storage_ops EXCEPT !.loads = @ + LoadsOf(files)]
    /\ pc' = "idle"
    /\ call' = [op |-> "none"]
    /\ attempt' = 0
    /\ http_count' = 0
    /\ answers' = "none"
    /\ request' = None
    /\ rejected' = {}
    /\ result' = None
    /\ pre' = [index |-> 0, geo |-> cached_geo', rev |-> cached_geo_rev']
    /\ UNCHANGED <<geocodio_api_list, calls, files, outcome>>

\* the calls made in the body
ScopeAddresses == {Addr1, Addr3}
ScopeCoords == {<<Float(Coord1[1]), Float(Coord1[2])>>}
ScopeUpdates == {ResultOf(LocB51)}

NextScope ==
    \/ \E street_address \in ScopeAddresses : scope = "entered" /\ geocode(street_address)
    \/ \E c \in ScopeCoords : scope = "entered" /\ reverse_geocode(c[1], c[2])
    \/ \E r \in ScopeUpdates :
            /\ scope = "entered"
            /\ UpdateCachedGeo(r, Str(_standardize_address(Addr3)), Tuple(Coord3))
    \/ ErrorCheckFatal
    \/ TransportFailure
    \/ UndecodableBody
    \/ CredentialRejected
    \/ ProviderError
    \/ ProviderSuccess
    \/ ScopeEnter
    \/ ScopeExit
    \/ Construct

\* one instance with at most one key
InitScope == Init /\ Len(geocodio_api_list) <= 1

SpecScope == InitScope /\ [][NextScope]_vars

(***************************************************************************)
(* The record normalizer on its own: get_geocode_result applied to provider *)
(* location records from which sections or single items are missing, and    *)
(* whose census mapping holds no, one or two years.                         *)
(***************************************************************************)
Year2019 == [tract_code |-> "110200", block_code |-> "1000"]
Year2023 == [tract_code |-> "110300", block_code |-> "2000"]

\* census mappings, in iteration order
CensusInputs ==
    {<<>>,
     << <<"2019", Year2019>> >>,
     << <<"2019", Year2019>>, <<"2023", Year2023>> >>,
     << <<"2023", Year2023>>, <<"2019", Year2019>> >>}

SectionNames == {"address_components", "location", "fields"}

ItemNames ==
    {"number", "city", "county", "state", "zip", "country", "lat", "lng", "tract_code"}

\* the dict d without the keys in keys
Without(d, keys) == [k \in DOMAIN d \ keys |-> d[k]]

\* the location record without one item of a section (when it has the section)
WithoutItem(loc, item) ==
    LET section == IF item \in {"lat", "lng"} THEN "location"
                   ELSE IF item = "tract_code" THEN "fields"
                   ELSE "address_components"
    IN  IF section \notin DOMAIN loc THEN loc
        ELSE IF item = "tract_code"
        THEN LET census == loc.fields.census
             IN  IF census = <<>> THEN loc
                 ELSE [loc EXCEPT !.fields =
                          [census |-> <<  <<census[1][1], Without(census[1][2], {item})>>  >>
                                      \o Tail(census)]]
        ELSE [loc EXCEPT ![section] = Without(loc[section], {item})]

RecordInputs ==
    {WithoutItem(Without([LocA EXCEPT !.fields = [census |-> census]], sections), item) :
        census \in CensusInputs, sections \in SUBSET SectionNames,
        item \in ItemNames} \cup
    {Without([LocA EXCEPT !.fields = [census |-> census]], sections) :
        census \in CensusInputs, sections \in SUBSET SectionNames}

\* Geocoder.get_geocode_result(geocodio_loc), called on its own
Normalize(geocodio_loc) ==
    LET r == get_geocode_result(geocodio_loc)
    IN  /\ pc = "idle"
        /\ call' = [op |-> "get_geocode_result", geocodio_loc |-> geocodio_loc]
        /\ result' = r.ret
        /\ outcome' = IF r.exc = "none" THEN "returned" ELSE r.exc
        /\ UNCHANGED <<geocodio_api_list, geocodio_api_index, cached_geo, cached_geo_rev, pc,
                       attempt, http_count, answers, request, rejected, pre, calls, files,
                       scope, storage_ops>>

NextRecords == \E geocodio_loc \in RecordInputs : Normalize(geocodio_loc)

\* no key and no file: get_geocode_result is a static method
InitRecords ==
    Init /\ geocodio_api_list = <<>> /\ files = [geo |-> Absent, rev |-> Absent]

SpecRecords == InitRecords /\ [][NextRecords]_vars

(***************************************************************************)
(* The error_check wrapper on decoded bodies of every shape: results and    *)
(* error together, 'result' alone, a null results, messages that hold a     *)
(* credential-level signature at the start, elsewhere, or in another case.  *)
(***************************************************************************)
MsgInvalidKeyLower ==
    <<"i", "n", "v", "a", "l", "i", "d", " ", "a", "p", "i", " ", "k", "e", "y">>
MsgInvalidKeyInside == <<"E", "r", "r", "o", "r", ":", " ">> \o InvalidKeyPrefix

ResponseInputs ==
    {[results |-> List(<<LocA>>)],
     [results |-> List(<<>>)],
     [results |-> List(<<LocA>>), error |-> Str(MsgInvalidKey)],
     [result |-> List(<<LocA>>)],
     [results |-> None, error |-> Str(MsgPayment)],
     [results |-> None],
     [error |-> Str(MsgDemo)],
     [error |-> Str(MsgInvalidKey)],
     [error |-> Str(MsgInvalidKeyInside)],
     [error |-> Str(MsgInvalidKeyLower)],
     [error |-> Str(MsgOther)],
     [error |-> Str(<<>>)],
     [error |-> None],
     <<>>}

\* one run of the wrapper on a request that the provider answers with resp
ErrorCheck(resp) ==
    \/ ProviderAnswers(resp)
    \/ Classify(resp) = "APIRetryError" /\ CredentialRejected
    \/ Classify(resp) = "RuntimeError" /\ ProviderError

NextResponses ==
    \/ geocode(Addr1)
    \/ reverse_geocode(Float(Coord1[1]), Float(Coord1[2]))
    \/ ErrorCheckFatal
    \/ \E resp \in ResponseInputs : ErrorCheck(resp)

SpecResponses == Init /\ [][NextResponses]_vars

(***************************************************************************)
(* Lookups whose provider call runs on: inside _geocode / _reverse_geocode  *)
(* the wrapper is run again after every retried exception, and every        *)
(* request is answered or fails.                                            *)
(***************************************************************************)
Respond ==
    \/ ErrorCheckFatal
    \/ TransportFailure
    \/ UndecodableBody
    \/ CredentialRejected
    \/ ProviderError
    \/ ProviderSuccess

NextTermination ==
    \/ geocode(Addr1)
    \/ reverse_geocode(Float(Coord1[1]), Float(Coord1[2]))
    \/ Respond

SpecTermination == Init /\ [][NextTermination]_vars /\ WF_vars(Respond)

(***************************************************************************)
(* The normalizer on addresses with and without a house number, with a      *)
(* direction letter after the number, further on, twice, or not at all.     *)
(***************************************************************************)
LeadParts == {<<>>, <<"7">>, <<"1", "0", "0", "0">>, <<"a">>, <<"7", "a">>}
FirstParts == {<<>>, <<" ", "n">>, <<" ", "s", ".">>, <<" ", "E">>, <<" ", "w">>, <<" ", "x">>}
SecondParts == {<<>>, <<" ", "n">>, <<" ", "S">>, <<" ", "e", ".">>, <<" ", "w", ".">>}
StreetParts ==
    {<<" ", "m", "a", "i", "n", " ", "s", "t">>,
     <<" ", "m", "a", "i", "n", " ", "n", " ", "s", "t">>,
     <<" ", "e">>}

DirectionInputs ==
    {lead \o first \o second \o street :
        lead \in LeadParts, first \in FirstParts, second \in SecondParts,
        street \in StreetParts}

NextDirections == \E street_address \in DirectionInputs : Standardize(street_address)

SpecDirections == InitNormalizer /\ [][NextDirections]_vars

(***************************************************************************)
(* Lookups answered with candidates whose accuracy is 0 or missing, alone   *)
(* or next to a candidate with an accuracy.                                 *)
(***************************************************************************)
AccuracyLists ==
    {<<LocA>>, <<LocBare>>, <<LocZero>>, <<LocA, LocBare>>, <<LocZero, LocA>>}

NextAccuracy ==
    \/ \E street_address \in {Addr1, Addr3} : geocode(street_address)
    \/ reverse_geocode(Float(Coord1[1]), Float(Coord1[2]))
    \/ ErrorCheckFatal
    \/ \E c \in AccuracyLists : ProviderAnswers([results |-> List(c)])

SpecAccuracy == Init /\ [][NextAccuracy]_vars

(***************************************************************************)
(* Vocabulary of the properties.                                            *)
(***************************************************************************)
IsLookup == call.op \in {"geocode", "reverse_geocode"}

Finished == pc = "idle" /\ call.op # "none"

\* the caches are as they were when the call began
CachesUntouched == cached_geo = pre.geo /\ cached_geo_rev = pre.rev

\* the lookup found nothing usable in its cache when it began
WasMiss ==
    \/ /\ call.op = "geocode"
       /\ ~Truthy(DictGet(pre.geo, _standardize_address(call.street_address), None))
    \/ /\ call.op = "reverse_geocode"
       /\ IsNumber(call.lat) /\ IsNumber(call.long)
       /\ ~Truthy(DictGet(pre.rev, <<Round4(call.lat.val), Round4(call.long.val)>>, None))

\* the exceptions a provider failure ends a lookup with
ProviderFailures == {"APIFatalError", "RuntimeError", "JSONDecodeError", "ConnectionError"}

\* the lookup ended on a success response
Accepted == Finished /\ IsLookup /\ http_count > 0 /\ outcome \notin ProviderFailures

\* 0-based position of a key in the credential list
Position(key) == (CHOOSE i \in 1..Len(ApiKeys) : ApiKeys[i] = key) - 1

\* this step sends an HTTP request
Sends == http_count' = http_count + 1

(***************************************************************************)
(* C1. A geocode of an address whose normalized form has a non-empty entry  *)
(* in the forward cache returns that entry, sends no HTTP request and       *)
(* leaves the index and both caches as they were; and a geocode that        *)
(* returned a result leaves it under the normalized address, so that a      *)
(* later geocode of any address with the same normal form is such a hit.    *)
(***************************************************************************)
C1_CacheHitIsAuthoritative ==
    /\ (call.op = "geocode"
            /\ Truthy(DictGet(pre.geo, _standardize_address(call.street_address), None)))
        => /\ pc = "idle"
           /\ outcome = "returned"
           /\ result = pre.geo[_standardize_address(call.street_address)]
           /\ http_count = 0
           /\ request = None
           /\ geocodio_api_index = pre.index
           /\ CachesUntouched
    /\ (Finished /\ call.op = "geocode" /\ outcome = "returned" /\ Truthy(result))
        => /\ Truthy(DictGet(cached_geo, _standardize_address(call.street_address), None))
           /\ cached_geo[_standardize_address(call.street_address)] = result

\* the second call is geocode('1 blk N. a'), served from what a first
\* geocode('1 n a') cached
C1_Witness ==
    /\ calls = 2
    /\ call.op = "geocode"
    /\ call.street_address = Addr2
    /\ pre.geo = DictSet(DictSet(<<>>, FmtA, ResultOf(LocA)), _standardize_address(Addr1), ResultOf(LocA))
    /\ result = ResultOf(LocA)
    /\ http_count = 0

(***************************************************************************)
(* C2. update_cached_geo(R, forward_lookup, rev_lookup) leaves R under an   *)
(* applicable key exactly when that key had no (non-empty) entry or an      *)
(* entry of strictly lower accuracy, keeps the old entry otherwise, and     *)
(* touches no other key.  The applicable keys are R's formatted address,    *)
(* forward_lookup, R's own rounded coordinates and the rounded rev_lookup.  *)
(***************************************************************************)
C2_ForwardKeys ==
    {call.geocode_result["formatted_address"]}
        \cup (IF call.forward_lookup # None THEN {call.forward_lookup.val} ELSE {})

C2_ReverseKeys ==
    (IF call.geocode_result["latitude"] # 0 /\ call.geocode_result["longitude"] # 0
     THEN {<<Round4(call.geocode_result["latitude"]), Round4(call.geocode_result["longitude"])>>}
     ELSE {})
        \cup (IF call.rev_lookup # None
              THEN {<<Round4(call.rev_lookup.val[1]), Round4(call.rev_lookup.val[2])>>}
              ELSE {})

\* R beats what the cache held under k before the call
C2_Beats(before, k) ==
    \/ k \notin DOMAIN before
    \/ DOMAIN before[k] = {}
    \/ before[k]["accuracy"] < call.geocode_result["accuracy"]

C2_Merged(before, after, keys) ==
    /\ DOMAIN after = DOMAIN before \cup keys
    /\ \A k \in DOMAIN after :
        after[k] = IF k \in keys /\ C2_Beats(before, k) THEN call.geocode_result ELSE before[k]

C2_MergeRule ==
    (Finished /\ call.op = "update_cached_geo" /\ outcome = "returned")
        => /\ C2_Merged(pre.geo, cached_geo, C2_ForwardKeys)
           /\ C2_Merged(pre.rev, cached_geo_rev, C2_ReverseKeys)

\* one call in which a tie keeps the old entry under forward_lookup and under
\* rev_lookup while the formatted address, not cached before, takes R
C2_Witness ==
    /\ Finished /\ call.op = "update_cached_geo" /\ outcome = "returned"
    /\ call.geocode_result = ResultOf(LocC)
    /\ call.forward_lookup # None /\ call.rev_lookup # None
    /\ DictGet(pre.geo, call.forward_lookup.val, None) = ResultOf(LocB)
    /\ DictGet(cached_geo, call.forward_lookup.val, None) = ResultOf(LocB)
    /\ DictGet(pre.rev, RoundPair(Coord3), None) = ResultOf(LocB)
    /\ DictGet(cached_geo_rev, RoundPair(Coord3), None) = ResultOf(LocB)
    /\ FmtA \notin DOMAIN pre.geo
    /\ DictGet(cached_geo, FmtA, None) = ResultOf(LocC)

(***************************************************************************)
(* C3. A geocode that starts at index 0 and is answered by k                *)
(* credential-level errors and then a success response (nothing else: the   *)
(* outer layer is still in its first attempt) returns what its cache then   *)
(* holds and raises nothing; it has sent exactly k + 1 requests, the first  *)
(* k keys are the rejected ones, the last request carried key number k and  *)
(* the index is k.                                                          *)
(***************************************************************************)
C3_RotationSucceeds ==
    (Accepted /\ call.op = "geocode" /\ pre.index = 0 /\ attempt = 1)
        => /\ outcome = "returned"
           /\ result = DictGet(cached_geo, _standardize_address(call.street_address), None)
           /\ rejected = {ApiKeys[i] : i \in 1..Cardinality(rejected)}
           /\ http_count = Cardinality(rejected) + 1
           /\ request.api_key = ApiKeys[Cardinality(rejected) + 1]
           /\ geocodio_api_index = Cardinality(rejected)

\* the list [BAD, GOOD]: one rejection, then a result, index 1
C3_Witness ==
    /\ Accepted /\ call.op = "geocode" /\ pre.index = 0 /\ attempt = 1
    /\ Len(geocodio_api_list) = 2
    /\ rejected = {ApiKeys[1]}
    /\ request.api_key = ApiKeys[2]
    /\ http_count = 2
    /\ geocodio_api_index = 1
    /\ result = ResultOf(LocA)

(***************************************************************************)
(* C4. A lookup that the provider answers with nothing but credential-level *)
(* errors ends by raising APIFatalError with the index at the length of the *)
(* list, after one request per key from the index it started at (all of     *)
(* len(list) when it started at 0); until then every step of it consumes a  *)
(* key, so it cannot loop.                                                  *)
(***************************************************************************)
C4_ExhaustionIsFatal ==
    (IsLookup /\ WasMiss /\ answers \in {"none", "credential"})
        => /\ http_count = geocodio_api_index - pre.index
           /\ geocodio_api_index <= Len(geocodio_api_list)
           /\ attempt = 1
           /\ pc = "calling" => outcome = "pending"
           /\ pc = "idle" => /\ outcome = "APIFatalError"
                             /\ geocodio_api_index = Len(geocodio_api_list)
                             /\ http_count = Len(geocodio_api_list) - pre.index
                             /\ pre.index = 0 => http_count = Len(geocodio_api_list)

\* both keys of a two-key list rejected in one geocode
C4_Witness ==
    /\ Finished /\ call.op = "geocode" /\ answers = "credential"
    /\ Len(geocodio_api_list) = 2
    /\ pre.index = 0
    /\ http_count = 2
    /\ geocodio_api_index = 2
    /\ outcome = "APIFatalError"

(***************************************************************************)
(* C5. A cache-miss lookup that begins with the index at or beyond the      *)
(* length of the list raises APIFatalError with no HTTP request and no      *)
(* retry of either layer; and from a state with the index there no step     *)
(* lowers the index or sends a request.                                     *)
(***************************************************************************)
C5_ExhaustedState ==
    (IsLookup /\ WasMiss /\ pre.index >= Len(geocodio_api_list))
        => /\ http_count = 0
           /\ request = None
           /\ attempt = 1
           /\ answers = "none"
           /\ geocodio_api_index = pre.index
           /\ CachesUntouched
           /\ pc = "idle" => outcome = "APIFatalError"

C5_ExhaustedStep ==
    geocodio_api_index >= Len(geocodio_api_list)
        => /\ geocodio_api_index' >= geocodio_api_index
           /\ ~Sends
           /\ request' = None \/ request' = request

C5_ExhaustionIsTerminal == []C5_ExhaustedState /\ [][C5_ExhaustedStep]_vars

\* a second lookup on an instance whose only key an earlier lookup used up
C5_Witness ==
    /\ calls = 2
    /\ Finished /\ IsLookup /\ WasMiss
    /\ Len(geocodio_api_list) = 1
    /\ pre.index = 1
    /\ http_count = 0
    /\ outcome = "APIFatalError"

(***************************************************************************)
(* C6. The index stays within 0..len(list); a step changes it only by       *)
(* adding exactly one, and exactly the steps in which the provider answers  *)
(* a request with a credential-level error do so.                           *)
(***************************************************************************)
C6_IndexInRange == geocodio_api_index \in 0..Len(geocodio_api_list)

\* the step records a rejection of the key its request carried
C6_RejectionStep ==
    /\ Sends
    /\ rejected' = rejected \cup {request'.api_key}
    /\ rejected' # rejected

C6_IndexStep ==
    IF C6_RejectionStep
    THEN geocodio_api_index' = geocodio_api_index + 1
    ELSE geocodio_api_index' = geocodio_api_index /\ rejected' = rejected

C6_IndexMonotone == []C6_IndexInRange /\ [][C6_IndexStep]_vars

C6_Witness ==
    /\ Len(geocodio_api_list) = 2
    /\ geocodio_api_index = 2
    /\ rejected = {ApiKeys[1], ApiKeys[2]}
    /\ calls = 2

(***************************************************************************)
(* C7. Every HTTP request carries the key at the index of the moment, and   *)
(* that key comes after every key rejected so far, in this lookup or an     *)
(* earlier one, forward or reverse.                                         *)
(***************************************************************************)
C7_RequestStep ==
    Sends => /\ request'.api_key = geocodio_api_list[geocodio_api_index + 1]
             /\ \A key \in rejected : Position(request'.api_key) > Position(key)

C7_RejectedKeysNeverReused == [][C7_RequestStep]_vars

\* a reverse lookup sends the second key after an earlier call had the first rejected
C7_Witness ==
    /\ calls = 2
    /\ call.op = "reverse_geocode"
    /\ pre.index = 1
    /\ rejected = {ApiKeys[1]}
    /\ request # None
    /\ request.api_key = ApiKeys[2]

C9_UndecodableBodyRetried ==
    (IsLookup /\ WasMiss /\ answers = "undecodable")
        => /\ geocodio_api_index = pre.index
           /\ CachesUntouched
           /\ pc = "calling" => /\ attempt \in 2..5
                                /\ http_count = attempt - 1
                                /\ outcome = "pending"
           /\ pc = "idle" => /\ outcome = "JSONDecodeError"
                             /\ result = None
                             /\ http_count = 5

C9_Witness ==
    /\ Finished /\ call.op = "reverse_geocode" /\ WasMiss
    /\ answers = "undecodable"
    /\ outcome = "JSONDecodeError"
    /\ http_count = 5
    /\ geocodio_api_index = pre.index
    /\ CachesUntouched

(***************************************************************************)
(* C10. As claimed: a cache-miss lookup whose requests fail at the          *)
(* transport level surfaces the failure only once the 5 attempts of the     *)
(* retry layer are used up.                                                 *)
(***************************************************************************)
C10_TransportFailureRetried ==
    (Finished /\ IsLookup /\ WasMiss /\ answers = "transport")
        => /\ outcome = "ConnectionError"
           /\ attempt = 5
           /\ http_count = 5

(***************************************************************************)
(* C11. While a lookup is inside the provider call its caches are as they   *)
(* were when it began, and when the provider call ends otherwise than on a  *)
(* success response the lookup raises one of the provider failures to the   *)
(* caller, returns no value, and leaves both caches as they were.           *)
(***************************************************************************)
C11_CallingLeavesCaches == (IsLookup /\ pc = "calling") => (WasMiss /\ CachesUntouched)

C11_FailureStep ==
    (IsLookup /\ pc = "calling" /\ pc' = "idle" /\ ~ProviderSuccess)
        => /\ outcome' \in ProviderFailures
           /\ result' = None
           /\ cached_geo' = pre.geo
           /\ cached_geo_rev' = pre.rev
           /\ pre' = pre

C12_Bucket(v) == (v + 5) \div 10

C12_SameBucket(c, d) ==
    /\ C12_Bucket(c[1].val) = C12_Bucket(d[1].val)
    /\ C12_Bucket(c[2].val) = C12_Bucket(d[2].val)

C12_CollisionStep ==
    (/\ Finished /\ call.op = "reverse_geocode" /\ outcome = "returned" /\ Truthy(result)
     /\ call'.op = "reverse_geocode" /\ calls' = calls + 1
     /\ IsNumber(call'.lat) /\ IsNumber(call'.long)
     /\ C12_SameBucket(<<call.lat, call.long>>, <<call'.lat, call'.long>>))
        => /\ pc' = "idle"
           /\ outcome' = "returned"
           /\ result' = result
           /\ http_count' = 0
           /\ request' = None
           /\ UNCHANGED <<cached_geo, cached_geo_rev, geocodio_api_index>>

C12_BucketCollision == [][C12_CollisionStep]_vars

\* the second of two reverse lookups in one bucket: the first one had a key
\* rejected and then filed LocC, whose own coordinates are neither input pair
C12_Witness ==
    /\ calls = 2
    /\ call.op = "reverse_geocode"
    /\ call.lat = Float(Coord2[1]) /\ call.long = Float(Coord2[2])
    /\ pre.geo = DictSet(<<>>, FmtA, ResultOf(LocC))
    /\ pre.rev = DictSet(<<>>, RoundPair(Coord1), ResultOf(LocC))
    /\ pre.index = 1 /\ rejected = {ApiKeys[1]}
    /\ pc = "idle"
    /\ result = ResultOf(LocC)
    /\ http_count = 0

(***************************************************************************)
(* C13. As claimed: a reverse_geocode whose latitude or longitude is not a  *)
(* number (a missing value included) returns None without raising, sends no *)
(* HTTP request and leaves the caches and the index as they were.           *)
(***************************************************************************)
C13_InvalidCoordinatesReturnNone ==
    (Finished /\ call.op = "reverse_geocode" /\ ~(IsNumber(call.lat) /\ IsNumber(call.long)))
        => /\ outcome = "returned"
           /\ result = None
           /\ http_count = 0
           /\ CachesUntouched
           /\ geocodio_api_index = pre.index

(***************************************************************************)
(* C14. A geocode that misses its cache and is answered by a success        *)
(* response without candidates returns without raising what its cache held  *)
(* under the normalized address, which is None when there was no entry, and *)
(* leaves both caches as they were; and when a geocode that missed has      *)
(* returned nothing, the same geocode made next goes to the provider again, *)
(* where every step sends a request while a key is left.                    *)
(***************************************************************************)
C14_NoCandidates == [results |-> List(<<>>)]

C14_EmptyAnswerStep ==
    (call.op = "geocode" /\ ProviderAnswers(C14_NoCandidates))
        => /\ pc' = "idle"
           /\ outcome' = "returned"
           /\ ~Truthy(result')
           /\ result' = DictGet(pre.geo, _standardize_address(call.street_address), None)
           /\ _standardize_address(call.street_address) \notin DOMAIN pre.geo => result' = None
           /\ cached_geo' = pre.geo
           /\ cached_geo_rev' = pre.rev

C14_RepeatStep ==
    (/\ Finished /\ call.op = "geocode" /\ WasMiss
     /\ outcome = "returned" /\ ~Truthy(result)
     /\ calls' = calls + 1 /\ call' = call)
        => /\ pc' = "calling"
           /\ http_count' = 0
           /\ UNCHANGED <<cached_geo, cached_geo_rev>>

C14_CallingStep ==
    (pc = "calling" /\ geocodio_api_index < Len(geocodio_api_list)) => Sends

C14_MissIsNotCached ==
    [][C14_EmptyAnswerStep /\ C14_RepeatStep /\ C14_CallingStep]_vars

\* a second geocode on an instance whose caches are still empty is answered
\* without candidates
C14_Witness ==
    /\ calls = 2
    /\ Finished /\ call.op = "geocode"
    /\ pre.geo = <<>> /\ pre.rev = <<>>
    /\ answers = "success"
    /\ http_count = 1
    /\ outcome = "returned"
    /\ result = None
    /\ cached_geo = <<>> /\ cached_geo_rev = <<>>

(***************************************************************************)
(* C15. The step that leaves the scope, whatever the last call of the body  *)
(* ended with, dumps each cache to its file once, and the files then hold   *)
(* the two caches; the Geocoder constructed next on the same filenames      *)
(* starts with both caches equal to the caches in memory at exit; and an    *)
(* instance that has made no call has an empty cache wherever its file is   *)
(* absent.                                                                  *)
(***************************************************************************)
C15_ExitStep ==
    (scope = "entered" /\ scope' = "exited")
        => /\ files' = [geo |-> Pickle(cached_geo), rev |-> Pickle(cached_geo_rev)]
           /\ storage_ops'.dumps_geo = storage_ops.dumps_geo + 1
           /\ storage_ops'.dumps_rev = storage_ops.dumps_rev + 1
           /\ UNCHANGED <<cached_geo, cached_geo_rev, outcome, result>>

C15_ConstructStep ==
    (scope = "exited" /\ scope' = "constructed")
        => /\ cached_geo' = cached_geo
           /\ cached_geo_rev' = cached_geo_rev
           /\ UNCHANGED files

C15_FreshInstance ==
    (scope = "constructed" /\ pc = "idle" /\ call.op = "none")
        => /\ files.geo = Absent => cached_geo = <<>>
           /\ files.rev = Absent => cached_geo_rev = <<>>
           /\ files.geo # Absent => Pickle(cached_geo) = files.geo
           /\ files.rev # Absent => Pickle(cached_geo_rev) = files.rev

C15_PersistenceRoundTrip ==
    []C15_FreshInstance /\ [][C15_ExitStep /\ C15_ConstructStep]_vars

\* constructed again after a body that began without files, cached an address
\* and ended with its last call raising
C15_Witness ==
    /\ scope = "constructed"
    /\ call.op = "none"
    /\ outcome = "RuntimeError"
    /\ calls = 2
    /\ storage_ops = [loads |-> 2, dumps_geo |-> 1, dumps_rev |-> 1]
    /\ geocodio_api_index = 0
    /\ cached_geo = DictSet(DictSet(<<>>, FmtA, ResultOf(LocA)),
                            _standardize_address(Addr1), ResultOf(LocA))
    /\ cached_geo_rev = DictSet(<<>>, RoundPair(Coord2), ResultOf(LocA))
    /\ files = [geo |-> Pickle(cached_geo), rev |-> Pickle(cached_geo_rev)]

(***************************************************************************)
(* C16. The files change only in the step that leaves the scope, and they   *)
(* are loaded only in the step that constructs an instance: no step of a    *)
(* geocode, reverse_geocode or update_cached_geo, and not the step that     *)
(* enters the scope, writes a file, loads one, or brings a cache back to    *)
(* what is stored.                                                          *)
(***************************************************************************)
C16_StorageStep ==
    /\ files' # files => (scope = "entered" /\ scope' = "exited")
    /\ (storage_ops'.dumps_geo # storage_ops.dumps_geo
            \/ storage_ops'.dumps_rev # storage_ops.dumps_rev)
        => (scope = "entered" /\ scope' = "exited")
    /\ storage_ops'.loads # storage_ops.loads => (scope = "exited" /\ scope' = "constructed")
    /\ (pc = "calling" \/ pc' = "calling" \/ calls' # calls)
        => UNCHANGED <<files, storage_ops, scope>>
    /\ (scope = "constructed" /\ scope' = "entered")
        => UNCHANGED <<files, storage_ops, cached_geo, cached_geo_rev>>

C16_StorageOnlyAtScopeEdges == [][C16_StorageStep]_vars

\* inside the scope after a lookup and an update that changed both caches: the
\* files are as they were at construction, read once and never written
C16_Witness ==
    /\ scope = "entered"
    /\ calls = 2
    /\ Finished /\ call.op = "update_cached_geo" /\ outcome = "returned"
    /\ files.geo # Absent /\ files.rev # Absent
    /\ Pickle(cached_geo) # files.geo
    /\ Pickle(cached_geo_rev) # files.rev
    /\ pre.geo # Load(files.geo)
    /\ storage_ops = [loads |-> 2, dumps_geo |-> 0, dumps_rev |-> 0]

(***************************************************************************)
(* C17. As claimed: a request of a reverse lookup carries q made of the     *)
(* rounded latitude, a comma and the rounded longitude and nothing else,    *)
(* with fields=census and the key at the index (or a key rejected since);   *)
(* a request of a forward lookup carries q equal to the normalized address. *)
(***************************************************************************)
C17_RequestParameters ==
    (IsLookup /\ request # None)
        => /\ request.fields = "census"
           /\ \/ request.api_key \in rejected
              \/ request.api_key = geocodio_api_list[geocodio_api_index + 1]
           /\ call.op = "geocode"
                => request.q = Str(_standardize_address(call.street_address))
           /\ call.op = "reverse_geocode"
                => request.q = [kind |-> "formatted",
                                val |-> <<Float(Round4(call.lat.val)), Str(","),
                                          Float(Round4(call.long.val))>>]

(***************************************************************************)
(* C18. As claimed: when update_cached_geo(R, forward_lookup=a,             *)
(* rev_lookup=c) has returned, R being strictly more accurate than every    *)
(* entry it competed with, and the next call is geocode(a),                 *)
(* geocode(R.formatted_address), reverse_geocode(c) or                      *)
(* reverse_geocode(R.latitude, R.longitude), that call returns R at once    *)
(* and sends no HTTP request.                                               *)
(***************************************************************************)
\* R beat every entry under the keys it was filed under
C18_Dominates ==
    /\ \A k \in {call.geocode_result["formatted_address"], call.forward_lookup.val} :
            \/ ~Truthy(DictGet(pre.geo, k, None))
            \/ pre.geo[k]["accuracy"] < call.geocode_result["accuracy"]
    /\ \A k \in {RoundPair(call.rev_lookup.val), OwnCoords(call.geocode_result)} :
            \/ ~Truthy(DictGet(pre.rev, k, None))
            \/ pre.rev[k]["accuracy"] < call.geocode_result["accuracy"]

\* the step begins one of the four lookups
C18_LooksUp ==
    \/ /\ call'.op = "geocode"
       /\ call'.street_address \in {call.forward_lookup.val,
                                    call.geocode_result["formatted_address"]}
    \/ /\ call'.op = "reverse_geocode"
       /\ IsNumber(call'.lat) /\ IsNumber(call'.long)
       /\ <<call'.lat.val, call'.long.val>>
            \in {call.rev_lookup.val,
                 <<call.geocode_result["latitude"], call.geocode_result["longitude"]>>}

C18_LookupStep ==
    (/\ Finished /\ call.op = "update_cached_geo" /\ outcome = "returned"
     /\ call.forward_lookup # None /\ call.rev_lookup # None
     /\ HasOwnCoords(call.geocode_result)
     /\ C18_Dominates
     /\ calls' = calls + 1
     /\ C18_LooksUp)
        => /\ pc' = "idle"
           /\ outcome' = "returned"
           /\ result' = call.geocode_result
           /\ http_count' = 0

C18_UpdateThenLookups == [][C18_LookupStep]_vars

(***************************************************************************)
(* C19. As claimed: the normalizer applied to what the normalizer returned  *)
(* returns it unchanged.                                                    *)
(***************************************************************************)
C19_Idempotent ==
    (call.op = "_standardize_address" /\ call.again) => result.val = call.street_address

(***************************************************************************)
(* C20. As claimed: every address made of a house number, a block           *)
(* qualifier, a direction and a rest is returned as the number, the         *)
(* direction word and the upper-cased rest.                                 *)
(***************************************************************************)
C20_Word(direction) ==
    CASE UpperChar(direction[2]) = "N" -> NORTH
      [] UpperChar(direction[2]) = "S" -> SOUTH
      [] UpperChar(direction[2]) = "E" -> EAST
      [] UpperChar(direction[2]) = "W" -> WEST

C20_Expanded(n, d, r) == n \o <<" ">> \o C20_Word(d) \o StrUpper(r)

C20_Original_AnyRest ==
    call.op = "_standardize_address"
        => \A n \in NumberParts, q \in QualifierParts, d \in DirectionParts, r \in RestParts :
                (q # <<>> /\ d # <<>> /\ call.street_address = Address(n, q, d, r))
                    => result.val = C20_Expanded(n, d, r)

(***************************************************************************)
(* C20, amended. The same for every such address whose rest holds no block  *)
(* qualifier, no 'JONES FALLS' and no ' HW' (in any letter case); and an    *)
(* address that holds none of these and does not begin with a number (or    *)
(* nothing), a space, one of N, S, E, W, an optional dot and a space is     *)
(* returned merely upper-cased.                                             *)
(***************************************************************************)
C20_Contains(s, sub) ==
    \E i \in 1..(Len(s) - Len(sub) + 1) : SubSeq(s, i, i + Len(sub) - 1) = sub

\* the upper-cased text holds something the normalizer rewrites anywhere
C20_HasToken(u) ==
    \/ C20_Contains(u, BLK)
    \/ C20_Contains(u, BLOCK)
    \/ C20_Contains(u, JONES_FALLS)
    \/ C20_Contains(u, HW)

C20_LeadingDirection(u) ==
    \E k \in 0..Len(u) :
        /\ \A i \in 1..k : u[i] \in Digits
        /\ Len(u) >= k + 3
        /\ u[k + 1] = " "
        /\ u[k + 2] \in {"N", "S", "E", "W"}
        /\ \/ u[k + 3] = " "
           \/ Len(u) >= k + 4 /\ u[k + 3] = "." /\ u[k + 4] = " "

C20_BlockThenDirection ==
    call.op = "_standardize_address"
        => /\ \A n \in NumberParts, q \in QualifierParts, d \in DirectionParts, r \in RestParts :
                (/\ q # <<>> /\ d # <<>>
                 /\ call.street_address = Address(n, q, d, r)
                 /\ ~C20_HasToken(StrUpper(r)))
                    => result.val = C20_Expanded(n, d, r)
           /\ (/\ ~C20_HasToken(StrUpper(call.street_address))
               /\ ~C20_LeadingDirection(StrUpper(call.street_address)))
                    => result.val = StrUpper(call.street_address)

\* '1000 block n charles st' gives '1000 NORTH CHARLES ST'
C20_Witness ==
    /\ call.op = "_standardize_address"
    /\ ~call.again
    /\ call.street_address = <<"1", "0", "0", "0", " ", "b", "l", "o", "c", "k", " ", "n", " ", "c", "h", "a", "r", "l", "e", "s", " ", "s", "t">>
    /\ result.val = <<"1", "0", "0", "0", " ", "N", "O", "R", "T", "H", " ", "C", "H", "A", "R", "L", "E", "S", " ", "S", "T">>

(***************************************************************************)
(* C21. As claimed: get_geocode_result returns, without raising, a record   *)
(* with every GeocodeResult field, whatever sections or single items the    *)
(* location record lacks, and a field whose source is absent has its        *)
(* default.                                                                 *)
(***************************************************************************)
C21_Fields ==
    {"latitude", "longitude", "formatted_address", "accuracy", "accuracy_type", "source",
     "number", "predirectional", "street", "suffix", "formatted_street", "city", "county",
     "state", "zip", "country", "census_tract"}

C21_AlwaysFullyPopulated ==
    call.op = "get_geocode_result" =>
        /\ outcome = "returned"
        /\ DOMAIN result = C21_Fields
        /\ "location" \notin DOMAIN call.geocodio_loc =>
               result.latitude = 0 /\ result.longitude = 0
        /\ "address_components" \notin DOMAIN call.geocodio_loc =>
               result.city = "" /\ result.county = "" /\ result.zip = ""
        /\ "fields" \notin DOMAIN call.geocodio_loc => result.census_tract = ""

(***************************************************************************)
(* C23. When get_geocode_result returns, census_tract is the tract_code of  *)
(* the first entry of the census mapping in its iteration order, whatever   *)
(* the years of the entries after it, and the empty string when the record  *)
(* carries no census data.                                                  *)
(***************************************************************************)
C23_Census ==
    IF "fields" \in DOMAIN call.geocodio_loc
    THEN call.geocodio_loc.fields.census
    ELSE <<>>

C23_FirstYearTract ==
    (call.op = "get_geocode_result" /\ outcome = "returned") =>
        IF C23_Census = <<>>
        THEN result.census_tract = ""
        ELSE /\ "tract_code" \in DOMAIN C23_Census[1][2]
             /\ result.census_tract = C23_Census[1][2].tract_code

\* '2019' first and '2023' after it: the tract of 2019 is taken
C23_Witness ==
    /\ call.op = "get_geocode_result"
    /\ outcome = "returned"
    /\ Len(C23_Census) = 2
    /\ C23_Census[1][1] = "2019"
    /\ C23_Census[2][1] = "2023"
    /\ result.census_tract = "110200"
    /\ C23_Census[2][2].tract_code # result.census_tract

(***************************************************************************)
(* C22. When the provider answers a lookup with candidates, every candidate *)
(* whose county is not 'Baltimore city' is normalized and merged like any   *)
(* other: the lookup returns without raising and each key the candidate     *)
(* applies to (its formatted address, its own rounded coordinates, the key  *)
(* looked up) then holds an entry at least as accurate as the candidate;    *)
(* when the key looked up had no entry and the candidate is the only one,   *)
(* the lookup returns that candidate.                                       *)
(***************************************************************************)
C22_NonCity(loc) ==
    /\ "address_components" \in DOMAIN loc
    /\ loc.address_components.county # "Baltimore city"

C22_Holds(cache, key, R) ==
    /\ key \in DOMAIN cache
    /\ "accuracy" \in DOMAIN cache[key]
    /\ cache[key].accuracy >= R.accuracy

C22_CandidateStep ==
    \A resp \in SuccessBodies :
        ProviderAnswers(resp) =>
            \A i \in 1..Len(resp.results.val) :
                LET loc == resp.results.val[i]
                    R   == ResultOf(loc)
                IN  C22_NonCity(loc) =>
                        /\ outcome' = "returned"
                        /\ R.county = loc.address_components.county
                        /\ C22_Holds(cached_geo', R.formatted_address, R)
                        /\ C22_Holds(cached_geo_rev',
                                     <<Round4(R.latitude), Round4(R.longitude)>>, R)
                        /\ call.op = "geocode" => C22_Holds(cached_geo', call.std_address, R)
                        /\ call.op = "reverse_geocode" =>
                               C22_Holds(cached_geo_rev', <<call.lat_rnd, call.long_rnd>>, R)
                        /\ (Len(resp.results.val) = 1 /\ Lookup(cached_geo, cached_geo_rev) = None)
                               => result' = R

C24_NonNull(resp, k) == k \in DOMAIN resp /\ resp[k] # None

C24_Success(resp) == C24_NonNull(resp, "results") \/ C24_NonNull(resp, "result")

C24_CredentialLevel(resp) ==
    /\ C24_NonNull(resp, "error")
    /\ \E prefix \in {PaymentPrefix, InvalidKeyPrefix, DemoPrefix} :
           /\ Len(resp.error.val) >= Len(prefix)
           /\ \A i \in 1..Len(prefix) : resp.error.val[i] = prefix[i]

C24_WrapperStep ==
    \A resp \in ResponseInputs :
        ErrorCheck(resp) =>
            IF C24_Success(resp)
            THEN /\ pc' = "idle"
                 /\ outcome' = "returned"
                 /\ geocodio_api_index' = geocodio_api_index
                 /\ attempt' = attempt
            ELSE IF C24_CredentialLevel(resp)
            THEN /\ geocodio_api_index' = geocodio_api_index + 1
                 /\ pc' = "calling"
                 /\ outcome' = "pending"
                 /\ attempt' = attempt
            ELSE /\ geocodio_api_index' = geocodio_api_index
                 /\ \/ attempt' = attempt + 1 /\ pc' = "calling" /\ outcome' = "pending"
                    \/ attempt' = attempt /\ pc' = "idle" /\ outcome' = "RuntimeError"

C24_Classification == [][C24_WrapperStep]_vars

\* one lookup met all three: a key was rejected, an attempt failed on another
\* error, and then a body with results was returned
C24_Witness ==
    /\ Finished
    /\ IsLookup
    /\ outcome = "returned"
    /\ answers = "mixed"
    /\ http_count = 3
    /\ attempt = 2
    /\ geocodio_api_index = pre.index + 1
    /\ rejected # {}

(***************************************************************************)
(* C25. Whatever the provider answers (success, credential-level error,     *)
(* other error, undecodable body, transport failure), a lookup that has     *)
(* entered the provider call leaves it, and at every moment the number of   *)
(* HTTP requests it has issued is at most 5 plus the number of credentials  *)
(* not yet used up when it started.                                         *)
(***************************************************************************)
C25_Unused == Len(geocodio_api_list) - pre.index

C25_RequestBound == IsLookup => http_count <= 5 + C25_Unused

C25_Terminates == []C25_RequestBound /\ (pc = "calling" ~> pc = "idle")

\* a key was left at the start; the lookup has ended after 4 requests more
\* than there were keys left, having met rejections and other errors
C25_Witness ==
    /\ Finished
    /\ IsLookup
    /\ C25_Unused >= 2
    /\ http_count = 4 + C25_Unused
    /\ rejected # {}
    /\ attempt = 5

(***************************************************************************)
(* C26. No step of a geocode, a reverse_geocode or an update_cached_geo     *)
(* removes a key from either cache, and under every key the entry either    *)
(* stays as it is or is replaced by a whole result (the one passed, or a    *)
(* normalized candidate) whose accuracy is strictly higher, an entry        *)
(* without an accuracy counting as 0.                                       *)
(***************************************************************************)
C26_Accuracy(entry) == IF "accuracy" \in DOMAIN entry THEN entry.accuracy ELSE 0

C26_Results ==
    IF call'.op = "update_cached_geo"
    THEN {call'.geocode_result}
    ELSE {ResultOf(loc) : loc \in Locations}

C26_Monotone(before, after) ==
    /\ DOMAIN before \subseteq DOMAIN after
    /\ \A k \in DOMAIN before :
           \/ after[k] = before[k]
           \/ /\ after[k] \in C26_Results
              /\ C26_Accuracy(after[k]) > C26_Accuracy(before[k])
    /\ \A k \in DOMAIN after \ DOMAIN before : after[k] \in C26_Results

C26_CacheStep ==
    /\ C26_Monotone(cached_geo, cached_geo')
    /\ C26_Monotone(cached_geo_rev, cached_geo_rev')

C26_EntriesOnlyImprove == [][C26_CacheStep]_vars

\* a geocode has replaced the entry of a coordinate pair by a more accurate one
C26_Witness ==
    /\ Finished
    /\ call.op = "geocode"
    /\ outcome = "returned"
    /\ \E k \in DOMAIN pre.rev :
           /\ Truthy(pre.rev[k])
           /\ cached_geo_rev[k] # pre.rev[k]
           /\ cached_geo_rev[k].accuracy > pre.rev[k].accuracy

(***************************************************************************)
(* C27. Every key of the reverse cache, the keys that geocode,              *)
(* reverse_geocode and update_cached_geo write included, is a pair rounded  *)
(* to 4 decimals; a step writes or replaces an entry only under such a      *)
(* pair, and never under the unrounded pair it was given; and what a        *)
(* reverse_geocode returns is the entry under the rounded pair nearest to   *)
(* its arguments.                                                           *)
(***************************************************************************)
C27_Rounded(key) == key[1] % 10 = 0 /\ key[2] % 10 = 0

C27_Near(v, r) == r - v \in -5..5

C27_KeysRounded == \A key \in DOMAIN cached_geo_rev : C27_Rounded(key)

C27_LookupRounded ==
    (Finished /\ call.op = "reverse_geocode" /\ outcome = "returned" /\ result # None) =>
        \E key \in DOMAIN cached_geo_rev :
            /\ C27_Rounded(key)
            /\ C27_Near(call.lat.val, key[1])
            /\ C27_Near(call.long.val, key[2])
            /\ result = cached_geo_rev[key]

C27_GivenPair ==
    IF call'.op = "reverse_geocode" /\ IsNumber(call'.lat) /\ IsNumber(call'.long)
    THEN {<<call'.lat.val, call'.long.val>>}
    ELSE IF call'.op = "update_cached_geo" /\ call'.rev_lookup # None
    THEN {call'.rev_lookup.val}
    ELSE {}

C27_WriteStep ==
    \A key \in DOMAIN cached_geo_rev' :
        (key \notin DOMAIN cached_geo_rev \/ cached_geo_rev'[key] # cached_geo_rev[key]) =>
            /\ C27_Rounded(key)
            /\ \A given \in C27_GivenPair : ~C27_Rounded(given) => key # given

C27_ReverseKeysRounded ==
    []C27_KeysRounded /\ []C27_LookupRounded /\ [][C27_WriteStep]_vars

\* a reverse_geocode of an unrounded pair that missed has filed and returned
\* its result under the rounded pair
C27_Witness ==
    /\ Finished
    /\ call.op = "reverse_geocode"
    /\ WasMiss
    /\ http_count = 1
    /\ result # None
    /\ ~C27_Rounded(<<call.lat.val, call.long.val>>)
    /\ <<call.lat.val, call.long.val>> \notin DOMAIN cached_geo_rev
    /\ <<call.lat_rnd, call.long_rnd>> \notin DOMAIN pre.rev
    /\ cached_geo_rev[<<call.lat_rnd, call.long_rnd>>] = result

(***************************************************************************)
(* C28. When a geocode that missed its cache has returned a result R whose  *)
(* latitude and longitude are not zero, the reverse cache holds under R's   *)
(* rounded coordinates an entry at least as accurate as R, and a            *)
(* reverse_geocode(R.latitude, R.longitude) made next returns at once, with *)
(* no HTTP request, an entry at least as accurate as R.                     *)
(***************************************************************************)
C28_GeocodeReturned ==
    /\ Finished
    /\ call.op = "geocode"
    /\ WasMiss
    /\ outcome = "returned"
    /\ Truthy(result)
    /\ result.latitude # 0
    /\ result.longitude # 0

C28_Filed ==
    C28_GeocodeReturned =>
        \E key \in DOMAIN cached_geo_rev :
            /\ key[1] - result.latitude \in -5..5
            /\ key[2] - result.longitude \in -5..5
            /\ "accuracy" \in DOMAIN cached_geo_rev[key]
            /\ cached_geo_rev[key].accuracy >= result.accuracy

C28_ReverseStep ==
    (/\ C28_GeocodeReturned
     /\ calls' = calls + 1
     /\ call'.op = "reverse_geocode"
     /\ call'.lat = Float(result.latitude)
     /\ call'.long = Float(result.longitude))
        => /\ pc' = "idle"
           /\ http_count' = 0
           /\ request' = None
           /\ outcome' = "returned"
           /\ result' # None
           /\ result'.accuracy >= result.accuracy

C28_GeocodeFeedsReverse == []C28_Filed /\ [][C28_ReverseStep]_vars

\* both caches were empty at construction; a geocode was answered with a
\* result, and the reverse_geocode of that result's coordinates was a hit
C28_Witness ==
    /\ Finished
    /\ calls = 2
    /\ call.op = "reverse_geocode"
    /\ files = [geo |-> Absent, rev |-> Absent]
    /\ _standardize_address(Addr1) \in DOMAIN cached_geo
    /\ http_count = 0
    /\ outcome = "returned"
    /\ result # None
    /\ result = cached_geo[_standardize_address(Addr1)]
    /\ call.lat = Float(result.latitude)
    /\ call.long = Float(result.longitude)
    /\ ~C27_Rounded(<<result.latitude, result.longitude>>)

(***************************************************************************)
(* C29. When the provider answers a lookup that missed its cache with a     *)
(* non-empty list of candidates of positive accuracy, the lookup returns    *)
(* the normalized candidate of highest accuracy, the earliest in response   *)
(* order among those of highest accuracy; this holds of geocode and, under  *)
(* the rounded pair it looks up, of reverse_geocode.                        *)
(***************************************************************************)
C29_Best(locs) ==
    locs[CHOOSE i \in 1..Len(locs) :
            \A j \in 1..Len(locs) :
                \/ locs[j].accuracy < locs[i].accuracy
                \/ locs[j].accuracy = locs[i].accuracy /\ j >= i]

C29_AnswerStep ==
    \A resp \in SuccessBodies :
        (/\ ProviderAnswers(resp)
         /\ ~Truthy(Lookup(cached_geo, cached_geo_rev))
         /\ resp.results.val # <<>>
         /\ \A i \in 1..Len(resp.results.val) : resp.results.val[i].accuracy > 0)
            => /\ outcome' = "returned"
               /\ result' = ResultOf(C29_Best(resp.results.val))
               /\ Lookup(cached_geo', cached_geo_rev') = result'

C29_BestCandidateReturned == [][C29_AnswerStep]_vars

\* two candidates of equal accuracy were merged (each is under its formatted
\* address) and the geocode returned the one that came first
C29_Witness ==
    /\ Finished
    /\ calls = 1
    /\ call.op = "geocode"
    /\ files = [geo |-> Absent, rev |-> Absent]
    /\ http_count = 1
    /\ outcome = "returned"
    /\ result = ResultOf(LocB)
    /\ FmtA \in DOMAIN cached_geo
    /\ cached_geo[FmtA] = ResultOf(LocC)
    /\ cached_geo[FmtA].accuracy = result.accuracy

(***************************************************************************)
(* C30. As claimed: a direction is expanded only where the address begins   *)
(* with a house number (one digit or more) that a space, one of N, S, E, W, *)
(* an optional dot and a space follow, and there only once; an address that *)
(* does not begin with a number, or that has its direction letters          *)
(* elsewhere, is returned upper-cased with no direction expanded.           *)
(***************************************************************************)
C30_NumberLen(u) ==
    CHOOSE k \in 0..Len(u) :
        /\ \A i \in 1..k : u[i] \in Digits
        /\ k < Len(u) => u[k + 1] \notin Digits

C30_Word(letter) ==
    IF letter = "N" THEN NORTH
    ELSE IF letter = "S" THEN SOUTH
    ELSE IF letter = "E" THEN EAST
    ELSE WEST

\* length of the direction token that follows the first k characters, or 0
C30_TokenLen(u, k) ==
    IF Len(u) >= k + 3 /\ u[k + 1] = " " /\ u[k + 2] \in {"N", "S", "E", "W"}
    THEN IF Len(u) >= k + 4 /\ u[k + 3] = "." /\ u[k + 4] = " " THEN 3
         ELSE IF u[k + 3] = " " THEN 2
         ELSE 0
    ELSE 0

C30_ExpandedOnce(u, k) ==
    SubSeq(u, 1, k) \o <<" ">> \o C30_Word(u[k + 2])
        \o SubSeq(u, k + C30_TokenLen(u, k) + 1, Len(u))

C30_OnlyAfterNumber ==
    (call.op = "_standardize_address" /\ ~C20_HasToken(StrUpper(call.street_address))) =>
        LET u == StrUpper(call.street_address)
            k == C30_NumberLen(u)
        IN  result.val = IF k >= 1 /\ C30_TokenLen(u, k) > 0
                         THEN C30_ExpandedOnce(u, k)
                         ELSE u

(***************************************************************************)
(* C31. As claimed: where an address holds 'JONES FALLS', 'JONES FALLS      *)
(* EXPWY' or 'JONES FALLS EXPRESSWAY' (in any letter case), the whole alias *)
(* is replaced by 'I-83': the result holds 'I-83', and neither the alias    *)
(* nor an 'EXPWY' or 'EXPRESSWAY' left over from it.                        *)
(***************************************************************************)
C31_EXPWY == <<"E", "X", "P", "W", "Y">>
C31_EXPRESSWAY == <<"E", "X", "P", "R", "E", "S", "S", "W", "A", "Y">>

C31_AliasReplacedWhole ==
    (/\ call.op = "_standardize_address"
     /\ C20_Contains(StrUpper(call.street_address), JONES_FALLS))
        => /\ C20_Contains(result.val, I83)
           /\ ~C20_Contains(result.val, JONES_FALLS)
           /\ ~C20_Contains(result.val, C31_EXPWY)
           /\ ~C20_Contains(result.val, C31_EXPRESSWAY)

(***************************************************************************)
(* C32. As claimed: a lookup that the provider answers with a body that has *)
(* results never ends with an assertion error, whatever the accuracy of the *)
(* candidates (0 and missing included), and a lookup that raises leaves the *)
(* caches as they were when it began, not updated for some candidates only. *)
(***************************************************************************)
C32_AssertionsHold ==
    IsLookup =>
        /\ outcome # "AssertionError"
        /\ outcome \notin {"returned", "pending"} => CachesUntouched

(***************************************************************************)
(* C33. A geocode or reverse_geocode that begins when no credential is left *)
(* (the index has reached the length of the list, an empty list included)   *)
(* and whose key has a non-empty entry in its cache returns that entry at   *)
(* once: it raises nothing, sends no HTTP request and leaves the index and  *)
(* both caches as they were.                                                *)
(***************************************************************************)
C33_Cache == IF call'.op = "geocode" THEN cached_geo ELSE cached_geo_rev

C33_Key ==
    IF call'.op = "geocode"
    THEN call'.std_address
    ELSE <<call'.lat_rnd, call'.long_rnd>>

C33_HitStep ==
    (/\ calls' = calls + 1
     /\ call'.op \in {"geocode", "reverse_geocode"}
     /\ call'.op = "reverse_geocode" => IsNumber(call'.lat) /\ IsNumber(call'.long)
     /\ geocodio_api_index >= Len(geocodio_api_list)
     /\ C33_Key \in DOMAIN C33_Cache
     /\ DOMAIN C33_Cache[C33_Key] # {})
        => /\ pc' = "idle"
           /\ outcome' = "returned"
           /\ result' = C33_Cache[C33_Key]
           /\ http_count' = 0
           /\ request' = None
           /\ geocodio_api_index' = geocodio_api_index
           /\ cached_geo' = cached_geo
           /\ cached_geo_rev' = cached_geo_rev

C33_HitsNeedNoCredential == [][C33_HitStep]_vars

\* the only key was rejected in the first lookup; the second lookup was
\* answered from the cache
C33_Witness ==
    /\ Finished
    /\ IsLookup
    /\ calls = 2
    /\ Len(geocodio_api_list) = 1
    /\ geocodio_api_index = 1
    /\ pre.index = 1
    /\ rejected = {ApiKeys[1]}
    /\ outcome = "returned"
    /\ Truthy(result)
    /\ http_count = 0

====
